---------------------------- MODULE Spec2Model ----------------------------
(***************************************************************************)
(* WebAuthn relying-party core of try_fastapi_sqlalchemy_strawberry:       *)
(* the challenge cache (app/auth.py), the credential store (app/crud.py,   *)
(* app/models.py) and the two verification mutations                       *)
(* (app/graphql_schema.py) as a state machine.                             *)
(*                                                                         *)
(* Every request runs as an asyncio task: the code between two awaits on   *)
(* the database runs without interruption, and each database round trip is *)
(* a point where other requests run.  A request slot holds the local       *)
(* variables of one running mutation.                                      *)
(***************************************************************************)
EXTENDS Integers, Sequences, FiniteSets, TLC

\* ------------------------------------------------------------------ bounds
NumRequests == 2        \* request slots (mutations in flight at the same time)
MaxChallenges == 3      \* options requests served (each draws a fresh challenge)
MaxSignCount == 2       \* largest signature counter an authenticator reports
MaxTime == 32           \* minutes of wall-clock time a behaviour covers
ChallengeTtl == 5       \* minutes after which a pending challenge is to be gone

\* --------------------------------------------------------------- constants
None == "None"
RP_ID == "localhost"
RP_ORIGIN == "http://localhost:3000"
ACCESS_TOKEN_EXPIRE_MINUTES == 30

Requests == 1..NumRequests
Usernames == {"alice", "bob"}
DisplayNames == {"Alice A", "Bob B"}
CredentialIds == {"credA", "credB"}
SignCounts == 0..MaxSignCount
Origins == {RP_ORIGIN, "http://evil.example"}
RpIds == {RP_ID, "evil.example"}
CeremonyTypes == {"reg", "auth"}

\* The random challenge of the n-th options request (register_begin /
\* authenticate_begin draw 32 random bytes; two draws never coincide).
NewChallenge(n) == "challenge" \o ToString(n)
Challenges == {NewChallenge(n) : n \in 1..MaxChallenges}

generate_challenge_key(username, type) == username \o "_" \o type \o "_challenge"

\* The challenge_key of a verification input is chosen by the client.
ChallengeKeys ==
    {generate_challenge_key(u, t) : u \in Usernames \cup {"discoverable"}, t \in CeremonyTypes}

\* ------------------------------------------------------------------- state
VARIABLES
    users,                  \* table users: rows [username, display_name]
    credentials,            \* table credentials: rows [credential_id, user, sign_count]
    temp_challenge_store,   \* dict: challenge key -> challenge
    challenges_issued,      \* how many challenges have been drawn so far
    req,                    \* request slot -> local variables of the running request
    now,                    \* datetime.now(timezone.utc), in minutes since startup
    codec                   \* a byte string on its way through the Base64URL boundary

vars == <<users, credentials, temp_challenge_store, challenges_issued, req, now, codec>>

\* ------------------------------------------------------------------ Base64URL
\* a byte string is a sequence over 0..255, a str a sequence of characters
\* the alphabet of base64.urlsafe_b64encode: value v is written B64Alphabet[v + 1]
B64Alphabet ==
    <<"A", "B", "C", "D", "E", "F", "G", "H", "I", "J", "K", "L", "M", "N", "O", "P",
      "Q", "R", "S", "T", "U", "V", "W", "X", "Y", "Z", "a", "b", "c", "d", "e", "f",
      "g", "h", "i", "j", "k", "l", "m", "n", "o", "p", "q", "r", "s", "t", "u", "v",
      "w", "x", "y", "z", "0", "1", "2", "3", "4", "5", "6", "7", "8", "9", "-", "_">>

\* base64.urlsafe_b64encode(s): three bytes make four characters, and the last
\* group is filled up with "="
urlsafe_b64encode(s) ==
    LET byte(i) == IF i <= Len(s) THEN s[i] ELSE 0
        sextet(g, p) ==
            CASE p = 0 -> byte(3 * g + 1) \div 4
              [] p = 1 -> (byte(3 * g + 1) % 4) * 16 + byte(3 * g + 2) \div 16
              [] p = 2 -> (byte(3 * g + 2) % 16) * 4 + byte(3 * g + 3) \div 64
              [] OTHER -> byte(3 * g + 3) % 64
    IN [i \in 1..(4 * ((Len(s) + 2) \div 3)) |->
           LET g == (i - 1) \div 4
               p == (i - 1) % 4
           IN IF p <= Len(s) - 3 * g THEN B64Alphabet[sextet(g, p) + 1] ELSE "="]

\* str.rstrip(chars) for one character
rstrip(s, ch) ==
    LET keep == {i \in 1..Len(s) : s[i] # ch} IN
    IF keep = {} THEN <<>>
    ELSE SubSeq(s, 1, CHOOSE i \in keep : \A j \in keep : j <= i)

\* the value of a character for base64.urlsafe_b64decode ("-" and "_" are
\* translated to "+" and "/", which are accepted as well); 64: not in the alphabet
B64Value(ch) ==
    IF \E v \in 1..64 : B64Alphabet[v] = ch
    THEN (CHOOSE v \in 1..64 : B64Alphabet[v] = ch) - 1
    ELSE IF ch = "+" THEN 62
    ELSE IF ch = "/" THEN 63
    ELSE 64

BinasciiError == "binascii.Error"

\* one pass of the loop of binascii.a2b_base64 (not strict) over character
\* ch: a character outside the alphabet is skipped, and a pad that completes
\* a group ends the parse (goto done)
a2b_step(st, ch) ==
    IF st.done THEN st
    ELSE IF ch = "="
    THEN IF st.quad_pos >= 2 /\ st.quad_pos + st.pads + 1 >= 4
         THEN [st EXCEPT !.done = TRUE]
         ELSE IF st.quad_pos >= 2 THEN [st EXCEPT !.pads = st.pads + 1] ELSE st
    ELSE IF B64Value(ch) >= 64 THEN st
    ELSE LET v == B64Value(ch) IN
         CASE st.quad_pos = 0 ->
                [st EXCEPT !.quad_pos = 1, !.pads = 0, !.leftchar = v]
           [] st.quad_pos = 1 ->
                [st EXCEPT !.quad_pos = 2, !.pads = 0, !.leftchar = v % 16,
                           !.out = Append(st.out, st.leftchar * 4 + v \div 16)]
           [] st.quad_pos = 2 ->
                [st EXCEPT !.quad_pos = 3, !.pads = 0, !.leftchar = v % 4,
                           !.out = Append(st.out, st.leftchar * 16 + v \div 4)]
           [] OTHER ->
                [st EXCEPT !.quad_pos = 0, !.pads = 0, !.leftchar = 0,
                           !.out = Append(st.out, st.leftchar * 64 + v)]

\* the loop over the characters lo..hi of s, in order
RECURSIVE a2b_loop(_, _, _, _)
a2b_loop(st, s, lo, hi) ==
    IF lo > hi THEN st
    ELSE IF lo = hi THEN a2b_step(st, s[lo])
    ELSE LET mid == (lo + hi) \div 2
             left == a2b_loop(st, s, lo, mid)
         IN IF left.done THEN left ELSE a2b_loop(left, s, mid + 1, hi)

\* binascii.a2b_base64: data that ends inside a group is an error
a2b_base64(s) ==
    LET st == a2b_loop([quad_pos |-> 0, pads |-> 0, leftchar |-> 0, out |-> <<>>,
                        done |-> FALSE], s, 1, Len(s))
    IN IF ~st.done /\ st.quad_pos # 0
       THEN [error |-> BinasciiError, bytes |-> <<>>]
       ELSE [error |-> None, bytes |-> st.out]

urlsafe_b64decode(s) == a2b_base64(s)

\* base64.urlsafe_b64encode(...).rstrip(b'=').decode('utf-8')
EncodeUnpadded(s) == rstrip(urlsafe_b64encode(s), "=")

MutNoPadding(s) == s
\* credential_id_b64 + '=='
PadTolerant(s) == s \o <<"=", "=">>

\* base64.urlsafe_b64decode(credential_id_b64 + '==')
DecodeTolerant(s) == urlsafe_b64decode(PadTolerant(s))

\* the byte strings put through the boundary: the lengths of a user handle,
\* a challenge, a credential ID and a public key, filled with
\* seed, seed + stride, seed + 2 * stride, ... (mod 256)
ByteLengths == {0, 1, 16, 32, 255}
ByteSeeds == {0, 1, 62, 63, 127, 128, 250, 251, 254, 255}
ByteStrides == {0, 1, 7, 85}
ByteString(length, seed, stride) == [i \in 1..length |-> (seed + (i - 1) * stride) % 256]

IdleCodec == [pc |-> "idle", raw |-> <<>>, encoded |-> <<>>, decoded |-> <<>>, error |-> None]

\* ---------------------------------------------------------- HTTP exceptions
HTTPException(status_code, detail) == [status_code |-> status_code, detail |-> detail]
NoError == HTTPException(0, None)
\* str() of an HTTPException, as the f-strings of the except clauses format it
Str(e) == ToString(e.status_code) \o ": " \o e.detail

ReplayDetail == "Authenticator counter mismatch. Possible replay attack."
CredentialNotFoundDetail == "Credential not found"
AuthFailedPrefix == "Authentication verification failed: "
AuthInternalPrefix == "Internal server error during authentication: "
RegFailedPrefix == "Registration verification failed: "
RegInternalPrefix == "Internal server error during registration: "
RegChallengeExpired ==
    "Registration challenge expired or not found. Please try registering again."
AuthChallengeExpired ==
    "Authentication challenge expired or not found. Please try logging in again."
RegInvalidFormat == "Invalid registration response format"
AuthInvalidFormat == "Invalid authentication response format"
RegUnexpected == "An unexpected error occurred during registration verification."
UserNotFoundMessage(username) == "User '" \o username \o "' not found."
DisplayNameMismatch(username) ==
    "Username '" \o username \o "' already exists with a different display name."
UsernameTakenMessage(username) == "Username '" \o username \o "' is already taken."
NoCredentialsDetail(username) == "No credentials found for user '" \o username \o "'"
CredentialsExceptionDetail == "Could not validate credentials"
\* the message of the sqlalchemy IntegrityError a commit ends with
IntegrityError == "IntegrityError"

\* ------------------------------------------------------------ request slots
\* a local variable that has not been assigned
Unbound == -1

IdleRequest ==
    [op |-> "idle", pc |-> "idle",
     username |-> None,           \* the username argument of the request
     display_name |-> None,       \* the display_name argument of the request
     challenge_key |-> None,      \* verification_input.challenge_key
     challenge_b64 |-> None,      \* what get_challenge returned
     client_challenge |-> None,   \* the challenge inside the response's clientDataJSON
     origin |-> None,             \* the origin inside the response's clientDataJSON
     rp_id |-> None,              \* the RP ID the authenticator data was made for
     credential_id_b64 |-> None,  \* verification_input.credential_id_b64
     credential_id |-> None,      \* credential.credential_id
     user |-> None,               \* credential.user.username
     sign_count |-> Unbound,      \* credential.sign_count
     new_sign_count |-> Unbound,  \* new_sign_count
     error |-> NoError,           \* the HTTPException the auth function raised
     result |-> "pending",        \* "ok", or the message of the StrawberryException
     token |-> None,              \* "sub" of the access token returned / presented
     exp |-> Unbound,             \* "exp" of the access token returned / presented
     signed |-> FALSE]            \* its signature verifies under SECRET_KEY

\* ------------------------------------------------------------ Challenge Cache
MutGetKeepsEntry(store, key) == store
\* temp_challenge_store after temp_challenge_store.pop(key, None)
StoreAfterPop(store, key) == [k \in DOMAIN store \ {key} |-> store[k]]

\* the value temp_challenge_store.pop(key, None) returns
get_challenge(store, key) == IF key \in DOMAIN store THEN store[key] ELSE None

MutMissingNotChecked(challenge_b64) == FALSE
\* if not challenge_b64
ChallengeMissing(challenge_b64) == challenge_b64 = None

MutSaveKeepsFirst(store, key, challenge) ==
    [k \in DOMAIN store \cup {key} |-> IF k \in DOMAIN store THEN store[k] ELSE challenge]
\* temp_challenge_store after temp_challenge_store[key] = challenge
save_challenge(store, key, challenge) ==
    [k \in DOMAIN store \cup {key} |-> IF k = key THEN challenge ELSE store[k]]

\* ---------------------------------------------------------- Credential Store
NoUser == [username |-> None, display_name |-> None]
NoCredential == [credential_id |-> None, user |-> None, sign_count |-> 0]

get_user_by_username(username) ==
    IF \E u \in users : u.username = username
    THEN CHOOSE u \in users : u.username = username
    ELSE NoUser

MutNoUniqueUsername(username) == FALSE
\* users.username is unique: the INSERT of a second row with the same
\* username fails at commit (IntegrityError)
UsernameTaken(username) == \E u \in users : u.username = username

create_user(username, display_name) ==
    users \cup {[username |-> username, display_name |-> display_name]}

MutAllCredentials(username) == credentials
get_credentials_by_user(username) == {c \in credentials : c.user = username}

MutAnyCredential(credential_id) ==
    IF credentials # {} THEN CHOOSE c \in credentials : TRUE ELSE NoCredential
get_credential_by_id(credential_id) ==
    IF \E c \in credentials : c.credential_id = credential_id
    THEN CHOOSE c \in credentials : c.credential_id = credential_id
    ELSE NoCredential

MutNoUniqueCredentialId(credential_id) == FALSE
\* credentials.credential_id is unique: the INSERT of a second row with the
\* same credential_id fails at commit (IntegrityError)
CredentialIdTaken(credential_id) ==
    \E c \in credentials : c.credential_id = credential_id

MutAddReplacesRows(username, credential_id, sign_count) ==
    {[credential_id |-> credential_id, user |-> username, sign_count |-> sign_count]}
add_credential_to_user(username, credential_id, sign_count) ==
    credentials \cup
        {[credential_id |-> credential_id, user |-> username, sign_count |-> sign_count]}

\* the UPDATE that db.commit() flushes after credential.sign_count = new_sign_count
update_credential_sign_count(credential_id, new_sign_count) ==
    {IF c.credential_id = credential_id
     THEN [c EXCEPT !.sign_count = new_sign_count]
     ELSE c : c \in credentials}


\* ------------------------------------------------- the fido2 library, as called
\* state={} : the state of register_begin / authenticate_begin is not kept;
\* the calls pass an empty dict, and neither the expected challenge nor the
\* expected origin / RP ID arguments (the library checks origin and RP ID
\* against the rp_entity it was constructed with).  As the comments at the two
\* call sites describe it, the library completes a ceremony without the
\* begin state: a key the state does not hold is not compared.
EmptyState == <<>>

\* wellFormed: json.loads and RegistrationResponseJSON accept the input;
\* parse: how decoding clientDataJSON / attestationObject ends.  A response
\* that cannot be read has no further content.
RegistrationResponses ==
    {x \in [wellFormed : BOOLEAN,
            parse : {"ok", "ValueError", "Exception"},
            id : CredentialIds,
            challenge : Challenges,
            origin : Origins,
            rp_id : RpIds,
            sign_count : SignCounts] :
        (~x.wellFormed \/ x.parse # "ok") =>
            /\ x.id = "credA" /\ x.challenge = NewChallenge(1) /\ x.origin = RP_ORIGIN
            /\ x.rp_id = RP_ID /\ x.sign_count = 0
            /\ (~x.wellFormed => x.parse = "ok")}

\* parse: how decoding authenticatorData / clientDataJSON / signature ends;
\* signed_by: the credential whose private key made the signature
AuthenticationResponses ==
    {x \in [parse : {"ok", "ValueError", "Exception"},
            signed_by : CredentialIds,
            challenge : Challenges,
            origin : Origins,
            rp_id : RpIds,
            sign_count : SignCounts] :
        x.parse # "ok" =>
            /\ x.signed_by = "credA" /\ x.challenge = NewChallenge(1) /\ x.origin = RP_ORIGIN
            /\ x.rp_id = RP_ID /\ x.sign_count = 0}

\* the exception classes a call can end with ("none": it returns)
Raised(class, message) == [class |-> class, message |-> message]
NotRaised == Raised("none", None)

\* the checks shared by register_complete and authenticate_complete
ClientDataChecks(state, response) ==
    IF response.parse # "ok" THEN Raised(response.parse, "cannot parse the response")
    ELSE IF response.origin # RP_ORIGIN THEN Raised("ValueError", "invalid origin")
    ELSE IF "challenge" \in DOMAIN state /\ state.challenge # response.challenge
         THEN Raised("ValueError", "wrong challenge")
    ELSE IF response.rp_id # RP_ID THEN Raised("ValueError", "wrong RP ID hash")
    ELSE NotRaised

register_complete(state, response) == ClientDataChecks(state, response)

authenticate_complete(state, credential, response) ==
    IF ClientDataChecks(state, response) # NotRaised THEN ClientDataChecks(state, response)
    ELSE IF response.signed_by # credential.credential_id
         THEN Raised("ValueError", "invalid signature")
    ELSE NotRaised

\* ------------------------------------------------------- auth.verify_registration
\* the HTTPException verify_registration raises (NoError: it returns auth_data);
\* expected_challenge_b64 is decoded into challenge_bytes and not used again
verify_registration(response, expected_challenge_b64) ==
    LET raised == register_complete(EmptyState, response) IN
    CASE raised.class = "none" -> NoError
      [] raised.class = "ValueError" -> HTTPException(400, RegFailedPrefix \o raised.message)
      [] OTHER -> HTTPException(500, RegInternalPrefix \o raised.message)

\* ----------------------------------------------------- auth.verify_authentication
MutReplayCheckReversed(new_sign_count, sign_count) == new_sign_count >= sign_count
\* if new_sign_count <= credential.sign_count
ReplayCheck(new_sign_count, sign_count) == new_sign_count <= sign_count

\* what the try block raises, for the credential read from the store
AuthTryBody(credential, response) ==
    LET raised == authenticate_complete(EmptyState, credential, response) IN
    IF raised # NotRaised THEN raised
    ELSE IF ReplayCheck(response.sign_count, credential.sign_count)
         THEN Raised("HTTPException", Str(HTTPException(400, ReplayDetail)))
    ELSE NotRaised

MutExceptSwallowed(raised) == NoError
\* except ValueError / except Exception: an HTTPException is an Exception and
\* not a ValueError
AuthExcept(raised) ==
    CASE raised.class = "none" -> NoError
      [] raised.class = "ValueError" -> HTTPException(400, AuthFailedPrefix \o raised.message)
      [] OTHER -> HTTPException(500, AuthInternalPrefix \o raised.message)

\* whether the try block got as far as new_sign_count = ...sign_count
ReachedCounterCheck(raised) == raised.class \in {"none", "HTTPException"}

\* ----------------------------------------------------------- session tokens
\* the JWT create_access_token encodes: data, "exp": now + expires_delta,
\* signed with SECRET_KEY
create_access_token(sub, expires_delta) ==
    [sub |-> sub, exp |-> now + expires_delta, signed |-> TRUE]

MutExpiryNotChecked(exp, at) == FALSE
\* jwt.decode raises ExpiredSignatureError (a PyJWTError) once "exp" is reached
TokenExpired(exp, at) == exp <= at

\* the user get_current_user returns (NoUser: it raises credentials_exception)
get_current_user(token) ==
    IF ~token.signed \/ TokenExpired(token.exp, now) THEN NoUser
    ELSE IF token.sub = None THEN NoUser
    ELSE get_user_by_username(token.sub)

\* the tokens a client can send: those the server returned to a request, and
\* one the client signed itself with another key
Tokens ==
    [sub : Usernames, exp : 0..(MaxTime + ACCESS_TOKEN_EXPIRE_MINUTES), signed : BOOLEAN]
TokensHeld ==
    {[sub |-> req[r].token, exp |-> req[r].exp, signed |-> req[r].signed] :
        r \in {x \in Requests : req[x].op = "verify_authentication" /\ req[x].token # None}}
ForgedToken ==
    [sub |-> "alice", exp |-> now + ACCESS_TOKEN_EXPIRE_MINUTES, signed |-> FALSE]

\* -------------------------------------------------------------------- Init
\* after startup: empty tables (lifespan drops and creates them), empty
\* challenge dict, no request running
Init ==
    /\ users = {}
    /\ credentials = {}
    /\ temp_challenge_store = <<>>
    /\ challenges_issued = 0
    /\ req = [r \in Requests |-> IdleRequest]
    /\ now = 0
    /\ codec = IdleCodec

MutDoneReportsFailure(fields) == [fields EXCEPT !.pc = "done", !.result = RegUnexpected]
\* the finished request: its outcome, and the client data of the response it
\* accepted (the client data of a rejected response is not kept)
Done(fields) ==
    IF fields.result = "ok"
    THEN [fields EXCEPT !.pc = "done"]
    ELSE [fields EXCEPT !.pc = "done", !.client_challenge = None,
                        !.origin = None, !.rp_id = None]

\* ---------------------------------------- Query.generate_registration_options
\* up to the result of crud.get_user_by_username
GRO_LookupUser(r, username, display_name) ==
    LET user == get_user_by_username(username)
        started == [IdleRequest EXCEPT !.op = "generate_registration_options",
                                       !.username = username,
                                       !.display_name = display_name]
    IN
    /\ req[r].pc = "idle"
    /\ challenges_issued < MaxChallenges
    /\ req' = [req EXCEPT ![r] =
                 IF user = NoUser THEN [started EXCEPT !.pc = "gro_create"]
                 ELSE IF user.display_name # display_name
                 THEN Done([started EXCEPT !.result = DisplayNameMismatch(username)])
                 ELSE [started EXCEPT !.pc = "gro_save"]]
    /\ UNCHANGED <<users, credentials, temp_challenge_store, challenges_issued, now, codec>>

\* the INSERT of crud.create_user
GRO_CreateUser(r) ==
    /\ req[r].pc = "gro_create"
    /\ IF UsernameTaken(req[r].username)
       THEN /\ req' = [req EXCEPT ![r] = Done([req[r] EXCEPT !.result = IntegrityError])]
            /\ UNCHANGED users
       ELSE /\ users' = create_user(req[r].username, req[r].display_name)
            /\ req' = [req EXCEPT ![r].pc = "gro_save"]
    /\ UNCHANGED <<credentials, temp_challenge_store, challenges_issued, now, codec>>

\* crud.get_credentials_by_user, register_begin and save_challenge
GRO_Save(r) ==
    LET challenge_key == generate_challenge_key(req[r].username, "reg") IN
    /\ req[r].pc = "gro_save"
    /\ challenges_issued < MaxChallenges
    /\ challenges_issued' = challenges_issued + 1
    /\ temp_challenge_store' =
           save_challenge(temp_challenge_store, challenge_key,
                          NewChallenge(challenges_issued + 1))
    /\ req' = [req EXCEPT ![r] = Done([req[r] EXCEPT !.challenge_key = challenge_key,
                                                        !.result = "ok"])]
    /\ UNCHANGED <<users, credentials, now, codec>>

\* -------------------------------------- Query.generate_authentication_options
\* (username = None: discoverable credentials)
GenerateAuthenticationOptions(r, username) ==
    LET user == IF username # None THEN get_user_by_username(username) ELSE NoUser
        allow_credentials ==
            IF user # NoUser THEN get_credentials_by_user(user.username) ELSE {}
        challenge_key ==
            generate_challenge_key(IF username # None THEN username ELSE "discoverable", "auth")
        started == [IdleRequest EXCEPT !.op = "generate_authentication_options",
                                       !.username = username]
    IN
    /\ req[r].pc = "idle"
    /\ challenges_issued < MaxChallenges
    /\ IF allow_credentials = {} /\ username # None
       THEN /\ req' = [req EXCEPT ![r] =
                         Done([started EXCEPT
                                 !.error = HTTPException(404, NoCredentialsDetail(username)),
                                 !.result = NoCredentialsDetail(username)])]
            /\ UNCHANGED <<temp_challenge_store, challenges_issued>>
       ELSE /\ challenges_issued' = challenges_issued + 1
            /\ temp_challenge_store' =
                   save_challenge(temp_challenge_store, challenge_key,
                                  NewChallenge(challenges_issued + 1))
            /\ req' = [req EXCEPT ![r] = Done([started EXCEPT !.challenge_key = challenge_key,
                                                               !.result = "ok"])]
    /\ UNCHANGED <<users, credentials, now, codec>>

\* ------------------------------------------------------ Mutation.register_user
\* up to the result of crud.get_user_by_username
RU_LookupUser(r, username, display_name) ==
    LET started == [IdleRequest EXCEPT !.op = "register_user",
                                       !.username = username,
                                       !.display_name = display_name]
    IN
    /\ req[r].pc = "idle"
    /\ req' = [req EXCEPT ![r] =
                 IF get_user_by_username(username) # NoUser
                 THEN Done([started EXCEPT !.result = UsernameTakenMessage(username)])
                 ELSE [started EXCEPT !.pc = "ru_create"]]
    /\ UNCHANGED <<users, credentials, temp_challenge_store, challenges_issued, now, codec>>

\* the INSERT of crud.create_user
RU_CreateUser(r) ==
    /\ req[r].pc = "ru_create"
    /\ IF UsernameTaken(req[r].username)
       THEN /\ req' = [req EXCEPT ![r] = Done([req[r] EXCEPT !.result = IntegrityError])]
            /\ UNCHANGED users
       ELSE /\ users' = create_user(req[r].username, req[r].display_name)
            /\ req' = [req EXCEPT ![r] = Done([req[r] EXCEPT !.result = "ok"])]
    /\ UNCHANGED <<credentials, temp_challenge_store, challenges_issued, now, codec>>

\* -------------------------------------------------- Mutation.verify_registration
\* up to the result of crud.get_user_by_username
VR_LookupUser(r, username, challenge_key) ==
    LET user == get_user_by_username(username)
        started == [IdleRequest EXCEPT !.op = "verify_registration",
                                       !.username = username,
                                       !.challenge_key = challenge_key]
    IN
    /\ req[r].pc = "idle"
    /\ req' = [req EXCEPT ![r] =
                 IF user = NoUser
                 THEN Done([started EXCEPT !.result = UserNotFoundMessage(username)])
                 ELSE [started EXCEPT !.pc = "vr_verify"]]
    /\ UNCHANGED <<users, credentials, temp_challenge_store, challenges_issued, now, codec>>

\* what the mutation answers once the user is found: "ok" (it returns True)
\* or the message of the StrawberryException
RegistrationOutcome(challenge_b64, response) ==
    LET error == verify_registration(response, challenge_b64) IN
    IF ChallengeMissing(challenge_b64) THEN RegChallengeExpired
    ELSE IF ~response.wellFormed THEN RegInvalidFormat
    ELSE IF error # NoError THEN error.detail
    ELSE IF CredentialIdTaken(response.id) THEN RegUnexpected
    ELSE "ok"

\* get_challenge, the parse of the response, auth.verify_registration and the
\* INSERT of crud.add_credential_to_user
VR_Verify(r, response) ==
    LET challenge_b64 == get_challenge(temp_challenge_store, req[r].challenge_key)
        outcome == RegistrationOutcome(challenge_b64, response)
        got == [req[r] EXCEPT !.challenge_b64 = challenge_b64]
        parsed == IF response.parse = "ok"
                  THEN [got EXCEPT !.client_challenge = response.challenge,
                                   !.origin = response.origin,
                                   !.rp_id = response.rp_id]
                  ELSE got
        verified == [parsed EXCEPT !.error = verify_registration(response, challenge_b64)]
    IN
    /\ req[r].pc = "vr_verify"
    /\ temp_challenge_store' = StoreAfterPop(temp_challenge_store, req[r].challenge_key)
    /\ IF ChallengeMissing(challenge_b64) \/ ~response.wellFormed
       THEN /\ req' = [req EXCEPT ![r] = Done([got EXCEPT !.result = outcome])]
            /\ UNCHANGED credentials
       ELSE IF outcome # "ok"
       THEN /\ req' = [req EXCEPT ![r] = Done([verified EXCEPT !.result = outcome])]
            /\ UNCHANGED credentials
       ELSE /\ credentials' =
                   add_credential_to_user(req[r].username, response.id, response.sign_count)
            /\ req' = [req EXCEPT ![r] =
                         Done([verified EXCEPT !.credential_id = response.id,
                                                  !.sign_count = response.sign_count,
                                                  !.result = outcome])]
    /\ UNCHANGED <<users, challenges_issued, now, codec>>

\* ------------------------------------------------ Mutation.verify_authentication
\* get_challenge and the parse of the response
VA_GetChallenge(r, challenge_key, wellFormed) ==
    LET challenge_b64 == get_challenge(temp_challenge_store, challenge_key)
        got == [IdleRequest EXCEPT !.op = "verify_authentication",
                                   !.challenge_key = challenge_key,
                                   !.challenge_b64 = challenge_b64]
    IN
    /\ req[r].pc = "idle"
    /\ temp_challenge_store' = StoreAfterPop(temp_challenge_store, challenge_key)
    /\ req' = [req EXCEPT ![r] =
                 IF ChallengeMissing(challenge_b64)
                 THEN Done([got EXCEPT !.result = AuthChallengeExpired])
                 ELSE IF ~wellFormed
                 THEN Done([got EXCEPT !.result = AuthInvalidFormat])
                 ELSE [got EXCEPT !.pc = "va_read"]]
    /\ UNCHANGED <<users, credentials, challenges_issued, now, codec>>

\* the SELECT of crud.get_credential_by_id
VA_ReadCredential(r, credential_id) ==
    LET credential == get_credential_by_id(credential_id) IN
    /\ req[r].pc = "va_read"
    /\ req' = [req EXCEPT ![r] =
                 IF credential = NoCredential
                 THEN Done([req[r] EXCEPT
                                 !.credential_id_b64 = credential_id,
                                 !.error = HTTPException(404, CredentialNotFoundDetail),
                                 !.result = CredentialNotFoundDetail])
                 ELSE [req[r] EXCEPT !.pc = "va_check",
                                     !.credential_id_b64 = credential_id,
                                     !.credential_id = credential.credential_id,
                                     !.user = credential.user,
                                     !.sign_count = credential.sign_count]]
    /\ UNCHANGED <<users, credentials, temp_challenge_store, challenges_issued, now, codec>>

\* the try block up to the commit of crud.update_credential_sign_count
VA_Check(r, response) ==
    LET credential == [credential_id |-> req[r].credential_id, user |-> req[r].user,
                       sign_count |-> req[r].sign_count]
        raised == AuthTryBody(credential, response)
        error == AuthExcept(raised)
        parsed == IF response.parse = "ok"
                  THEN [req[r] EXCEPT !.client_challenge = response.challenge,
                                      !.origin = response.origin,
                                      !.rp_id = response.rp_id]
                  ELSE req[r]
        checked == [parsed EXCEPT
                      !.new_sign_count =
                          IF ReachedCounterCheck(raised) THEN response.sign_count ELSE Unbound,
                      !.error = error]
    IN
    /\ req[r].pc = "va_check"
    /\ req' = [req EXCEPT ![r] =
                 IF error # NoError
                 THEN Done([checked EXCEPT !.result = error.detail])
                 ELSE [checked EXCEPT !.pc = "va_write",
                                      !.sign_count = response.sign_count]]
    /\ UNCHANGED <<users, credentials, temp_challenge_store, challenges_issued, now, codec>>

\* the UPDATE reaches the database; create_access_token for credential.user
VA_Write(r) ==
    LET access_token == create_access_token(req[r].user, ACCESS_TOKEN_EXPIRE_MINUTES) IN
    /\ req[r].pc = "va_write"
    /\ credentials' = update_credential_sign_count(req[r].credential_id, req[r].sign_count)
    /\ req' = [req EXCEPT ![r] = Done([req[r] EXCEPT !.result = "ok",
                                                        !.token = access_token.sub,
                                                        !.exp = access_token.exp,
                                                        !.signed = access_token.signed])]
    /\ UNCHANGED <<users, temp_challenge_store, challenges_issued, now, codec>>

\* ------------------------------------------------------- auth.get_current_user
\* a request that presents a bearer token
GetCurrentUser(r, token) ==
    LET user == get_current_user(token)
        started == [IdleRequest EXCEPT !.op = "get_current_user",
                                       !.token = token.sub,
                                       !.exp = token.exp,
                                       !.signed = token.signed]
    IN
    /\ req[r].pc = "idle"
    /\ token \in TokensHeld \cup {ForgedToken}
    /\ req' = [req EXCEPT ![r] =
                 IF user = NoUser
                 THEN Done([started EXCEPT
                                 !.error = HTTPException(401, CredentialsExceptionDetail),
                                 !.result = CredentialsExceptionDetail])
                 ELSE Done([started EXCEPT !.user = user.username, !.result = "ok"])]
    /\ UNCHANGED <<users, credentials, temp_challenge_store, challenges_issued, now, codec>>

\* the response has been sent; the slot serves the next request
Finish(r) ==
    /\ req[r].pc = "done"
    /\ req' = [req EXCEPT ![r] = IdleRequest]
    /\ UNCHANGED <<users, credentials, temp_challenge_store, challenges_issued, now, codec>>

\* a minute passes
Tick ==
    /\ now < MaxTime
    /\ now' = now + 1
    /\ UNCHANGED <<users, credentials, temp_challenge_store, challenges_issued, req, codec>>

\* ------------------------------------------------------------- main.lifespan
\* the application starts: Base.metadata.drop_all, then create_all.  The
\* process is a new one, so the module-level temp_challenge_store is empty
\* again and no request of the earlier process is in flight.
lifespan ==
    /\ users' = {}
    /\ credentials' = {}
    /\ temp_challenge_store' = <<>>
    /\ req' = [r \in Requests |-> IdleRequest]
    /\ UNCHANGED <<challenges_issued, now, codec>>

\* ------------------------------------------------------- the Base64URL boundary
\* a byte string leaves the server (options["challenge"], user.id, cred["id"])
EncodeStep ==
    /\ codec.pc = "raw"
    /\ codec' = [codec EXCEPT !.pc = "encoded", !.encoded = EncodeUnpadded(codec.raw)]
    /\ UNCHANGED <<users, credentials, temp_challenge_store, challenges_issued, req, now>>

\* and comes back (credential_id_b64, public_key_b64, expected_challenge_b64)
DecodeStep ==
    LET decoded == DecodeTolerant(codec.encoded) IN
    /\ codec.pc = "encoded"
    /\ codec' = [codec EXCEPT !.pc = "decoded", !.decoded = decoded.bytes,
                              !.error = decoded.error]
    /\ UNCHANGED <<users, credentials, temp_challenge_store, challenges_issued, req, now>>

\* -------------------------------------------------------------- the system
\* the whole system from the empty database, requests served one at a time
Next ==
    \/ \E u \in Usernames, d \in DisplayNames : GRO_LookupUser(1, u, d)
    \/ GRO_CreateUser(1)
    \/ GRO_Save(1)
    \/ \E u \in Usernames \cup {None} : GenerateAuthenticationOptions(1, u)
    \/ \E u \in Usernames, d \in DisplayNames : RU_LookupUser(1, u, d)
    \/ RU_CreateUser(1)
    \/ \E u \in Usernames, k \in ChallengeKeys : VR_LookupUser(1, u, k)
    \/ \E response \in RegistrationResponses : VR_Verify(1, response)
    \/ \E k \in ChallengeKeys, w \in BOOLEAN : VA_GetChallenge(1, k, w)
    \/ \E c \in CredentialIds : VA_ReadCredential(1, c)
    \/ \E response \in AuthenticationResponses : VA_Check(1, response)
    \/ VA_Write(1)
    \/ Finish(1)

Spec == Init /\ [][Next]_vars

\* concurrent authentication requests against a store that holds alice's
\* registered credential (a state Spec reaches by a registration ceremony)
InitAuth ==
    /\ users = {[username |-> "alice", display_name |-> "Alice A"],
                [username |-> "bob", display_name |-> "Bob B"]}
    /\ \E n \in {0, 1} :
           credentials = {[credential_id |-> "credA", user |-> "alice", sign_count |-> n]}
    /\ temp_challenge_store = <<>>
    /\ challenges_issued = 0
    /\ req = [r \in Requests |-> IdleRequest]
    /\ now = 0
    /\ codec = IdleCodec

NextAuth ==
    \/ \E r \in Requests, u \in Usernames \cup {None} : GenerateAuthenticationOptions(r, u)
    \/ \E r \in Requests, k \in ChallengeKeys, w \in BOOLEAN : VA_GetChallenge(r, k, w)
    \/ \E r \in Requests, c \in CredentialIds : VA_ReadCredential(r, c)
    \/ \E r \in Requests, response \in AuthenticationResponses : VA_Check(r, response)
    \/ \E r \in Requests : VA_Write(r)
    \/ \E r \in Requests : Finish(r)

SpecAuth == InitAuth /\ [][NextAuth]_vars

\* concurrent first-time registration-options requests and register_user
\* mutations, from the empty database
NextUsers ==
    \/ \E r \in Requests, u \in Usernames, d \in DisplayNames : GRO_LookupUser(r, u, d)
    \/ \E r \in Requests : GRO_CreateUser(r)
    \/ \E r \in Requests : GRO_Save(r)
    \/ \E r \in Requests, u \in Usernames, d \in DisplayNames : RU_LookupUser(r, u, d)
    \/ \E r \in Requests : RU_CreateUser(r)
    \/ \E r \in Requests : Finish(r)

SpecUsers == Init /\ [][NextUsers]_vars

\* concurrent registration completions: alice and bob have each requested
\* registration options (states Spec reaches)
InitReg ==
    /\ users = {[username |-> "alice", display_name |-> "Alice A"],
                [username |-> "bob", display_name |-> "Bob B"]}
    /\ credentials = {}
    /\ temp_challenge_store =
           save_challenge(save_challenge(<<>>, generate_challenge_key("alice", "reg"),
                                         NewChallenge(1)),
                          generate_challenge_key("bob", "reg"), NewChallenge(2))
    /\ challenges_issued = 2
    /\ req = [r \in Requests |-> IdleRequest]
    /\ now = 0
    /\ codec = IdleCodec

NextReg ==
    \/ \E r \in Requests, u \in Usernames, k \in ChallengeKeys : VR_LookupUser(r, u, k)
    \/ \E r \in Requests, response \in RegistrationResponses : VR_Verify(r, response)
    \/ \E r \in Requests : Finish(r)

SpecReg == InitReg /\ [][NextReg]_vars

\* the clock runs: an authentication ceremony of alice pending since minute 0
\* (its options were issued at startup), and requests that present the token
InitTime ==
    /\ users = {[username |-> "alice", display_name |-> "Alice A"]}
    /\ credentials = {[credential_id |-> "credA", user |-> "alice", sign_count |-> 0]}
    /\ temp_challenge_store =
           save_challenge(<<>>, generate_challenge_key("alice", "auth"), NewChallenge(1))
    /\ challenges_issued = 1
    /\ req = [r \in Requests |-> IdleRequest]
    /\ now = 0
    /\ codec = IdleCodec

NextTime ==
    \/ Tick
    \/ \E w \in BOOLEAN : VA_GetChallenge(1, generate_challenge_key("alice", "auth"), w)
    \/ \E c \in CredentialIds : VA_ReadCredential(1, c)
    \/ \E response \in AuthenticationResponses : VA_Check(1, response)
    \/ VA_Write(1)
    \/ \E token \in Tokens : GetCurrentUser(2, token)
    \/ Finish(2)

SpecTime == InitTime /\ [][NextTime]_vars

\* registration ceremonies from the empty database, served one at a time,
\* with restarts of the application in between
NextLife ==
    \/ lifespan
    \/ \E u \in Usernames, d \in DisplayNames : GRO_LookupUser(1, u, d)
    \/ GRO_CreateUser(1)
    \/ GRO_Save(1)
    \/ \E u \in Usernames, k \in ChallengeKeys : VR_LookupUser(1, u, k)
    \/ \E response \in RegistrationResponses : VR_Verify(1, response)
    \/ Finish(1)

SpecLife == Init /\ [][NextLife]_vars

\* byte strings through the Base64URL boundary
InitB64 ==
    /\ users = {}
    /\ credentials = {}
    /\ temp_challenge_store = <<>>
    /\ challenges_issued = 0
    /\ req = [r \in Requests |-> IdleRequest]
    /\ now = 0
    /\ \E length \in ByteLengths, seed \in ByteSeeds, stride \in ByteStrides :
           codec = [IdleCodec EXCEPT !.pc = "raw", !.raw = ByteString(length, seed, stride)]

NextB64 ==
    \/ EncodeStep
    \/ DecodeStep

SpecB64 == InitB64 /\ [][NextB64]_vars

\* concurrent authentication ceremonies of alice, of a user whose username is
\* "discoverable" (UserBase.username: 3 to 50 characters) and of the
\* username-less flow; each user has a registered credential
KeyUsernames == {"alice", "discoverable"}

InitKeys ==
    /\ users = {[username |-> "alice", display_name |-> "Alice A"],
                [username |-> "discoverable", display_name |-> "Bob B"]}
    /\ credentials = {[credential_id |-> "credA", user |-> "alice", sign_count |-> 0],
                      [credential_id |-> "credB", user |-> "discoverable", sign_count |-> 0]}
    /\ temp_challenge_store = <<>>
    /\ challenges_issued = 0
    /\ req = [r \in Requests |-> IdleRequest]
    /\ now = 0
    /\ codec = IdleCodec

NextKeys ==
    \/ \E r \in Requests, u \in KeyUsernames \cup {None} : GenerateAuthenticationOptions(r, u)
    \/ \E r \in Requests, u \in KeyUsernames, w \in BOOLEAN :
           VA_GetChallenge(r, generate_challenge_key(u, "auth"), w)
    \/ \E r \in Requests, c \in CredentialIds : VA_ReadCredential(r, c)
    \/ \E r \in Requests, response \in AuthenticationResponses : VA_Check(r, response)
    \/ \E r \in Requests : VA_Write(r)
    \/ \E r \in Requests : Finish(r)

SpecKeys == InitKeys /\ [][NextKeys]_vars

\* ------------------------------------------------------------------ claims
StoredSignCount(credential_id) == get_credential_by_id(credential_id).sign_count

\* a verify_authentication request that returned a token
Authenticated(r) ==
    req[r].op = "verify_authentication" /\ req[r].pc = "done" /\ req[r].result = "ok"

\* a verify_registration request that stored a credential
Registered(r) ==
    req[r].op = "verify_registration" /\ req[r].pc = "done" /\ req[r].result = "ok"

\* request r takes the step that runs the replay check, and the library
\* accepted the response (new_sign_count got its value)
CounterCheckStep(r) ==
    req[r].pc = "va_check" /\ req'[r].pc # "va_check" /\ req'[r].new_sign_count # Unbound

\* request r takes the step that calls get_challenge
RetrievalStep(r) ==
    \/ req[r].pc = "idle" /\ req'[r].op = "verify_authentication"
    \/ req[r].pc = "vr_verify" /\ req'[r].pc = "done"

ExpiredMessage(op) ==
    IF op = "verify_registration" THEN RegChallengeExpired ELSE AuthChallengeExpired

\* C1: of the authentication attempts on one credential that present the same
\* counter value, at most one succeeds (no two requests end with a token for
\* the same credential and the same submitted counter).
C1_AtMostOneSucceeds ==
    \A r1, r2 \in Requests :
        (r1 # r2 /\ Authenticated(r1) /\ Authenticated(r2)
            /\ req[r1].credential_id = req[r2].credential_id)
        => req[r1].new_sign_count # req[r2].new_sign_count

\* C2: every successful verify_authentication leaves the stored signature
\* counter of its credential strictly greater than it was before the attempt
\* completed, in every interleaving.
C2_CounterStrictlyIncreases ==
    [][\A r \in Requests :
           (req[r].pc = "va_write" /\ req'[r].pc = "done")
           => StoredSignCount(req[r].credential_id)' > StoredSignCount(req[r].credential_id)]_vars

\* C3: an attempt whose response otherwise verifies, with a nonzero stored
\* counter and a submitted counter <= the stored counter, fails with the
\* ReplayDetected error (status 400, the counter-mismatch detail) and leaves
\* the stored counter unchanged.
C3_ReplayDetected ==
    [][\A r \in Requests :
           (CounterCheckStep(r) /\ req[r].sign_count # 0
               /\ req'[r].new_sign_count <= req[r].sign_count)
           => /\ req'[r].pc = "done"
              /\ req'[r].error = HTTPException(400, ReplayDetail)
              /\ credentials' = credentials]_vars

\* C4: with stored counter 0, an otherwise valid assertion that reports
\* counter 0 is not rejected as a replay: the attempt goes on to succeed.
C4_ZeroCounterExempt ==
    [][\A r \in Requests :
           (CounterCheckStep(r) /\ req[r].sign_count = 0 /\ req'[r].new_sign_count = 0)
           => req'[r].pc = "va_write" /\ req'[r].error = NoError]_vars

C6_RetrievedAtMostOnce ==
    \A r \in Requests :
        req[r].challenge_b64 # None =>
            \A k \in DOMAIN temp_challenge_store :
                temp_challenge_store[k] # req[r].challenge_b64

\* Two challenges were saved under the key of the username-less authentication
\* options (no user exists, so no other key was ever filled), the slot's
\* earlier request took the second one, and the get_challenge of its latest
\* request returned None for that key.
C6_Witness ==
    /\ users = {}
    /\ challenges_issued = 2
    /\ temp_challenge_store = <<>>
    /\ req[1].op = "verify_authentication"
    /\ req[1].challenge_key = generate_challenge_key("discoverable", "auth")
    /\ req[1].challenge_b64 = None

\* C7: in verify_registration and in verify_authentication the step that
\* retrieves the challenge leaves its key empty whatever the outcome of the
\* attempt; an attempt that finds the key empty ends with the
\* challenge-expired message of its ceremony; and an empty key is filled
\* again only by an options request drawing a new challenge.
C7_ConsumedOnFirstRetrieval ==
    [][/\ \A r \in Requests :
              RetrievalStep(r) =>
                  /\ req'[r].challenge_key \notin DOMAIN temp_challenge_store'
                  /\ req'[r].challenge_key \notin DOMAIN temp_challenge_store
                     => /\ req'[r].pc = "done"
                        /\ req'[r].result = ExpiredMessage(req'[r].op)
       /\ \A k \in DOMAIN temp_challenge_store' :
              (k \notin DOMAIN temp_challenge_store
                  \/ temp_challenge_store'[k] # temp_challenge_store[k])
              => /\ challenges_issued' = challenges_issued + 1
                 /\ temp_challenge_store'[k] = NewChallenge(challenges_issued')]_vars

\* The only challenge ever issued went to the username-less authentication
\* options (no user exists), a first verify_authentication took it, and the
\* second attempt with the same key ended with the challenge-expired message.
C7_Witness ==
    /\ users = {}
    /\ challenges_issued = 1
    /\ temp_challenge_store = <<>>
    /\ req[1].pc = "done"
    /\ req[1].challenge_key = generate_challenge_key("discoverable", "auth")
    /\ req[1].result = AuthChallengeExpired

\* C8: two requests never hold the same challenge: of two requests that call
\* get_challenge for one key, at most one obtains the stored challenge.
C8_AtomicRetrieval ==
    \A r1, r2 \in Requests :
        (r1 # r2 /\ req[r1].challenge_b64 # None)
        => req[r1].challenge_b64 # req[r2].challenge_b64

C8_Witness ==
    \E r1, r2 \in Requests :
        /\ r1 # r2
        /\ req[r1].challenge_key = req[r2].challenge_key
        /\ req[r1].pc \in {"va_read", "va_check", "va_write"}
        /\ req[r1].challenge_b64 # None
        /\ req[r2].pc = "done"
        /\ req[r2].result = AuthChallengeExpired

\* C9: verify_registration succeeds only for a response whose challenge is
\* the one retrieved from the cache and whose origin and RP ID are those of
\* the relying party: a response with one of the three mismatched is rejected.
C9_RegistrationMatchesIssued ==
    \A r \in Requests :
        Registered(r) =>
            /\ req[r].client_challenge = req[r].challenge_b64
            /\ req[r].origin = RP_ORIGIN
            /\ req[r].rp_id = RP_ID

\* C10: verify_authentication accepts no assertion whose embedded challenge
\* differs from the challenge retrieved from the cache for the attempt.
C10_AssertionMatchesIssued ==
    \A r \in Requests :
        ((req[r].op = "verify_authentication" /\ req[r].pc = "va_write") \/ Authenticated(r))
        => req[r].client_challenge = req[r].challenge_b64

\* C11: a challenge that was stored and not retrieved within ChallengeTtl
\* minutes is gone: a get_challenge later than that returns None and the
\* attempt ends with the challenge-expired message.  (Under SpecTime the
\* pending challenge was saved at minute 0, so its age is the clock.)
C11_PendingChallengeExpires ==
    [][\A r \in Requests :
           (RetrievalStep(r) /\ now > ChallengeTtl)
           => /\ req'[r].challenge_b64 = None
              /\ req'[r].pc = "done"
              /\ req'[r].result = ExpiredMessage(req'[r].op)]_vars

StoredCredentialIds == {c.credential_id : c \in credentials}

\* C13: registration never partially succeeds.  A verify_registration
\* attempt that ends with a failure (unknown user, missing challenge,
\* malformed response, verification error) leaves the stored credentials as
\* they were; one that succeeds adds exactly one row; and a row is added to
\* the store only by a verify_registration attempt that succeeds.
C13_NoPartialRegistration ==
    [][/\ \A r \in Requests :
              (req'[r].op = "verify_registration" /\ req'[r].pc = "done" /\ req[r].pc # "done")
              => IF req'[r].result = "ok"
                 THEN /\ req'[r].credential_id \notin StoredCredentialIds
                      /\ credentials' = credentials \cup
                             {[credential_id |-> req'[r].credential_id,
                               user |-> req'[r].username,
                               sign_count |-> req'[r].sign_count]}
                 ELSE credentials' = credentials
       /\ StoredCredentialIds' # StoredCredentialIds
          => \E r \in Requests : req[r].pc = "vr_verify" /\ Registered(r)']_vars

\* a stored credential, and an attempt that failed at the verification of its
\* response (wrong origin or RP ID) next to it
C13_Witness ==
    \E r \in Requests :
        /\ req[r].op = "verify_registration"
        /\ req[r].pc = "done"
        /\ req[r].error.status_code = 400
        /\ credentials # {}

\* C14: every failed verification attempt aborts its ceremony: when a
\* verify_registration or verify_authentication request ends with a failure,
\* the challenge key it named holds no challenge any more, so a later attempt
\* needs a new options request.
C14_FailureAbortsCeremony ==
    [][\A r \in Requests :
           (/\ req'[r].op \in {"verify_registration", "verify_authentication"}
            /\ req'[r].pc = "done" /\ req[r].pc # "done"
            /\ req'[r].result # "ok")
           => req'[r].challenge_key \notin DOMAIN temp_challenge_store']_vars

\* request r takes the step that runs get_current_user on a token the server
\* signed
PresentsIssuedToken(r) ==
    req[r].pc = "idle" /\ req'[r].op = "get_current_user" /\ req'[r].signed

C16_OneLiveChallengePerKey ==
    [][/\ challenges_issued' # challenges_issued
          => \E k \in DOMAIN temp_challenge_store' :
                 /\ temp_challenge_store'[k] = NewChallenge(challenges_issued')
                 /\ DOMAIN temp_challenge_store' = DOMAIN temp_challenge_store \cup {k}
                 /\ \A k2 \in DOMAIN temp_challenge_store' \ {k} :
                        temp_challenge_store'[k2] = temp_challenge_store[k2]
                 /\ k \in DOMAIN temp_challenge_store
                    => \A k2 \in DOMAIN temp_challenge_store' :
                           temp_challenge_store'[k2] # temp_challenge_store[k]
       /\ \A r \in Requests :
              (RetrievalStep(r) /\ req'[r].challenge_key \in DOMAIN temp_challenge_store)
              => /\ req'[r].challenge_b64 = temp_challenge_store[req'[r].challenge_key]
                 /\ req'[r].challenge_key \notin DOMAIN temp_challenge_store']_vars

\* every challenge the bound allows was saved under the one key of the
\* username-less authentication options (no user exists), and a
\* verify_authentication retrieved the last of them
C16_Witness ==
    /\ users = {}
    /\ challenges_issued = MaxChallenges
    /\ temp_challenge_store = <<>>
    /\ req[1].op = "verify_authentication"
    /\ req[1].challenge_key = generate_challenge_key("discoverable", "auth")
    /\ req[1].challenge_b64 = NewChallenge(MaxChallenges)

\* C17: generate_authentication_options called with a username that has no
\* registered credential fails with NotFound (HTTP 404, surfaced as the
\* message of the StrawberryException), and that request stores no challenge:
\* the cache and the count of issued challenges are as they were.
C17_NoCredentialsNotFound ==
    [][\A r \in Requests :
          (/\ req[r].pc = "idle"
           /\ req'[r].op = "generate_authentication_options"
           /\ req'[r].username # None
           /\ ~ \E c \in credentials : c.user = req'[r].username)
          => /\ req'[r].error = HTTPException(404, NoCredentialsDetail(req'[r].username))
             /\ req'[r].result = NoCredentialsDetail(req'[r].username)
             /\ req'[r].pc = "done"
             /\ temp_challenge_store' = temp_challenge_store
             /\ challenges_issued' = challenges_issued]_vars

\* the request was refused for a user that exists and has no credential,
\* while another user has one and a registration challenge is pending
C17_Witness ==
    /\ req[1].op = "generate_authentication_options"
    /\ req[1].username = "alice"
    /\ req[1].error.status_code = 404
    /\ \E u \in users : u.username = "alice"
    /\ \E c \in credentials : c.user = "bob"
    /\ generate_challenge_key("alice", "reg") \in DOMAIN temp_challenge_store
    /\ generate_challenge_key("alice", "auth") \notin DOMAIN temp_challenge_store

\* C18: NotFound outcomes do not leak whether a username exists.  A
\* generate_authentication_options request for a username with no user row is
\* answered as the same request for a user without credentials is (the 404
\* message, nothing stored), and a verify_registration request for a username
\* with no user row is answered, whatever response it carries, as the same
\* request is answered when the user exists and has no credentials.
C18_NotFoundDoesNotLeakUsername ==
    [][\A r \in Requests :
          (/\ req[r].pc = "idle"
           /\ req'[r].username # None
           /\ get_user_by_username(req'[r].username) = NoUser)
          => /\ req'[r].op = "generate_authentication_options"
                => /\ req'[r].result = NoCredentialsDetail(req'[r].username)
                   /\ temp_challenge_store' = temp_challenge_store
             /\ req'[r].op = "verify_registration"
                => \A response \in RegistrationResponses :
                       req'[r].result =
                           RegistrationOutcome(
                               get_challenge(temp_challenge_store, req'[r].challenge_key),
                               response)]_vars

\* C19: the credential ID is unique across all users in every reachable
\* state: whatever the order and interleaving of the verify_registration
\* requests, no two stored credentials, of the same or of different users,
\* have the same credential_id.
C19_CredentialIdUnique ==
    \A c1 \in credentials, c2 \in credentials :
        c1.credential_id = c2.credential_id => c1 = c2

\* alice's registration stored credA; bob's registration, holding its own
\* pending challenge, presented the same credential ID and was refused at
\* the INSERT
C19_Witness ==
    /\ Registered(1)
    /\ req[1].username = "alice"
    /\ req[1].credential_id = "credA"
    /\ req[2].op = "verify_registration"
    /\ req[2].pc = "done"
    /\ req[2].username = "bob"
    /\ req[2].challenge_b64 = NewChallenge(2)
    /\ req[2].result = RegUnexpected
    /\ \A c \in credentials : c.credential_id = "credA" /\ c.user = "alice"

\* C20: usernames are unique in every reachable state, also when two
\* first-time generate_registration_options requests or register_user
\* mutations for the same new username run concurrently: after every step no
\* two user rows have the same username, and a request whose INSERT is not
\* refused is one whose username had no row, and adds exactly its own row.
C20_UsernameUnique ==
    [][/\ \A u1 \in users', u2 \in users' : u1.username = u2.username => u1 = u2
       /\ \A r \in Requests :
              (/\ req[r].pc \in {"gro_create", "ru_create"}
               /\ req'[r].pc # req[r].pc
               /\ req'[r].result # IntegrityError)
              => /\ ~ \E v \in users : v.username = req[r].username
                 /\ users' = users \cup {[username |-> req[r].username,
                                          display_name |-> req[r].display_name]}]_vars

\* a generate_registration_options request and a register_user mutation for
\* the new username alice both found no user; the query created the row and
\* the mutation's INSERT was refused
C20_Witness ==
    /\ req[1].op = "generate_registration_options"
    /\ req[1].username = "alice"
    /\ req[1].result = "ok"
    /\ req[2].op = "register_user"
    /\ req[2].username = "alice"
    /\ req[2].display_name = "Bob B"
    /\ req[2].result = IntegrityError
    /\ users = {[username |-> "alice", display_name |-> req[1].display_name]}

\* C21: users and credentials are never deleted: a user or a credential that
\* is in the store before a step, of a ceremony operation or of the
\* application's startup, is in the store after it.
C21_NeverDeleted ==
    [][/\ \A u \in users : \E v \in users' : v.username = u.username
       /\ \A c \in credentials :
              \E d \in credentials' :
                  d.credential_id = c.credential_id /\ d.user = c.user]_vars

\* C22: verify_authentication for a credential ID that is not in the store
\* fails with NotFound (HTTP 404 "Credential not found"); it changes no
\* stored credential or counter and the request yields no token.
C22_UnknownCredentialNotFound ==
    [][\A r \in Requests :
          (/\ req[r].pc = "va_read"
           /\ req'[r].pc # "va_read"
           /\ \A c \in credentials : c.credential_id # req'[r].credential_id_b64)
          => /\ req'[r].error = HTTPException(404, CredentialNotFoundDetail)
             /\ req'[r].result = CredentialNotFoundDetail
             /\ req'[r].pc = "done"
             /\ req'[r].token = None
             /\ credentials' = credentials]_vars

\* a verify_authentication that held a pending challenge named credB, which
\* nobody registered, while credA is in the store, and was refused with 404
C22_Witness ==
    /\ req[1].op = "verify_authentication"
    /\ req[1].pc = "done"
    /\ req[1].challenge_b64 # None
    /\ req[1].credential_id_b64 = "credB"
    /\ req[1].error.status_code = 404
    /\ req[1].token = None
    /\ \E c \in credentials : c.credential_id = "credA"

\* C23: Base64URL round trip: a byte string of length 0, 1, 16, 32 or 255,
\* encoded as unpadded Base64URL and decoded with the '==' padding tolerance,
\* comes back without an error and equal to the original bytes.
C23_Base64UrlRoundTrip ==
    codec.pc = "decoded"
    => /\ Len(codec.raw) \in {0, 1, 16, 32, 255}
       /\ codec.error = None
       /\ codec.decoded = codec.raw

\* 32 bytes 0xFF went through: 43 characters "_" and a last one "8", the
\* one "=" of the padded form stripped, and were decoded
C23_Witness ==
    /\ codec.pc = "decoded"
    /\ Len(codec.raw) = 32
    /\ codec.raw[32] = 255
    /\ Len(codec.encoded) = 43
    /\ codec.encoded[1] = "_"
    /\ codec.encoded[43] = "8"
    /\ Len(codec.decoded) = 32

\* C24: a pending challenge is bound to the user and ceremony type it was
\* issued for.  A verify_registration for user U that gets a challenge from
\* the cache gets it from U's registration key; a verify_authentication that
\* gets a challenge gets it from an authentication key, and the credential it
\* then resolves belongs to the user of that key (or the key is the one of the
\* username-less flow).  The key is an input of the request.
C24_ChallengeBoundToUserAndType ==
    [][\A r \in Requests :
          /\ (/\ RetrievalStep(r)
              /\ req'[r].challenge_b64 # None
              /\ req'[r].op = "verify_registration")
             => req'[r].challenge_key = generate_challenge_key(req'[r].username, "reg")
          /\ (/\ RetrievalStep(r)
              /\ req'[r].challenge_b64 # None
              /\ req'[r].op = "verify_authentication")
             => \E u \in Usernames \cup {"discoverable"} :
                    req'[r].challenge_key = generate_challenge_key(u, "auth")
          /\ (req[r].pc = "va_read" /\ req'[r].pc = "va_check")
             => req'[r].challenge_key \in
                    {generate_challenge_key(req'[r].user, "auth"),
                     generate_challenge_key("discoverable", "auth")}]_vars

\* request r is a generate_authentication_options query that stored a
\* challenge and has not yet returned its answer
OptionsIssued(r) ==
    req[r].op = "generate_authentication_options" /\ req[r].pc = "done" /\ req[r].result = "ok"

\* C25: authentication ceremonies of different users do not interfere through
\* the challenge cache.  Two options requests answered for different usernames
\* (the username-less flow and a user named "discoverable" included) stored
\* their challenges under different keys, and an options request that stores
\* its challenge leaves the challenge of a pending ceremony of another
\* username as it is.
C25_DifferentUsersDifferentKeys ==
    [][\A r1 \in Requests, r2 \in Requests :
          /\ (/\ OptionsIssued(r1)'
              /\ OptionsIssued(r2)'
              /\ req'[r1].username # req'[r2].username)
             => req'[r1].challenge_key # req'[r2].challenge_key
          /\ (/\ OptionsIssued(r1)
              /\ req[r2].pc = "idle"
              /\ OptionsIssued(r2)'
              /\ req'[r2].username # req[r1].username
              /\ req[r1].challenge_key \in DOMAIN temp_challenge_store)
             => temp_challenge_store'[req[r1].challenge_key] =
                    temp_challenge_store[req[r1].challenge_key]]_vars

C27_RegistrationAddsOneCredential ==
    [][\A r \in Requests :
          (req[r].pc = "vr_verify" /\ Registered(r)')
          => /\ credentials \subseteq credentials'
             /\ Cardinality(credentials') = Cardinality(credentials) + 1
             /\ \A c \in credentials' \ credentials :
                    /\ c.user = req[r].username
                    /\ c.credential_id = req'[r].credential_id
                    /\ c.sign_count = req'[r].sign_count
                    /\ c.sign_count \in SignCounts
             /\ users' = users]_vars

\* bob registered credB with attested counter 0 while alice's credA, stored
\* with a counter above 0, stayed as it was
C27_Witness ==
    /\ Registered(1)
    /\ req[1].username = "alice"
    /\ Registered(2)
    /\ req[2].username = "bob"
    /\ req[2].sign_count = 0
    /\ credentials = {[credential_id |-> "credA", user |-> "alice", sign_count |-> MaxSignCount],
                      [credential_id |-> "credB", user |-> "bob", sign_count |-> 0]}

=============================================================================
